---------------------------- MODULE Spec2Model ----------------------------
(***************************************************************************)
(* A model of clickorm_ch: identifier quoting (dialect.py), the type       *)
(* renderer and parser (ddl.py, engine.py), the CREATE TABLE renderer      *)
(* (ddl.py) and the expression compiler with the Query builder             *)
(* (expressions.py, compiler.py, query.py), and concurrent compilations,   *)
(* each on the Compiler its call constructs (query.py, engine.py), and the *)
(* INSERT ... SELECT builder (insert_builder.py).                          *)
(*                                                                         *)
(* SQL text is modelled as TLA+ strings, character by character: Len,      *)
(* SubSeq and \o are the only string operations used.                      *)
(***************************************************************************)
EXTENDS Integers, Sequences, FiniteSets, TLC

VARIABLES
    d_name,      \* dialect: the identifier handed to quote_ident / render_table_name
    d_op,        \* dialect: which function ran ("none", "quote_ident", "render_table_name")
    d_out,       \* dialect: the text it returned
    t_type,      \* types: the Column Type handed to _render_type (NoType when none)
    t_col,       \* types: the column row DESCRIBE TABLE reported to generate_model
    t_text,      \* types: the type text handed to _parse_ch_type
    t_parsed,    \* types: what _parse_ch_type returned, or the exception it raised
    t_pc,        \* types: "type", "described", "text", "parsed"
    ddl_call,    \* ddl: the arguments of the CREATE TABLE call
    ddl_pc,      \* ddl: "ready" before the call, "done" after it
    ddl_raised,  \* ddl: the exception that left the call, "" when it returned
    ddl_executed, \* ddl: the statements handed to db.execute, in order
    q_model,     \* query: Query.model, the schema queried
    q_where,     \* query: Query._where, the filter tree (NoExpr for None)
    q_order_by,  \* query: Query._order_by
    q_limit,     \* query: Query._limit
    q_offset,    \* query: Query._offset
    q_calls,     \* query: the arguments of the filter() calls so far, in call order
    issued,      \* query: the last engine call: execute (all, first) or scalar (count)
    issued_before, \* query: the execute call before it, if made on the Query as it is now
    q_first,     \* query: first() has been called since the last limit()
    c_pc,        \* compilations: where each thread is in its call
    c_call,      \* compilations: the entry point each thread called and its Query
    c_comp,      \* compilations: the Compiler object each thread's call holds in comp
    c_todo,      \* compilations: the values select has still to hand to add_param
    c_p,         \* compilations: add_param's local p
    c_loaded,    \* compilations: the self._i that self._i += 1 has loaded
    c_params,    \* compilations: the bindings each call has made so far, in order
    heap_i,      \* compilations: Compiler._i of every Compiler object
    heap_users,  \* compilations: the threads that read or advanced each object's _i
    b_optimized, \* insert builder: whether the interpreter runs with -O (asserts removed)
    b_sources,   \* insert builder: InsertBuilder._sources
    b_mapping,   \* insert builder: InsertBuilder._mapping, in insertion order
    b_joins,     \* insert builder: InsertBuilder._joins
    b_where,     \* insert builder: InsertBuilder._where
    b_group_by,  \* insert builder: InsertBuilder._group_by
    b_order_by,  \* insert builder: InsertBuilder._order_by
    b_validated, \* insert builder: InsertBuilder._validated
    b_ncalls,    \* insert builder: the builder calls made so far
    b_result,    \* insert builder: what the last compile() or execute() returned or raised
    b_sent       \* insert builder: the statements handed to the client, in order

dialectVars == <<d_name, d_op, d_out>>
typeVars == <<t_type, t_col, t_text, t_parsed, t_pc>>
ddlVars == <<ddl_call, ddl_pc, ddl_raised, ddl_executed>>
queryVars == <<q_model, q_where, q_order_by, q_limit, q_offset, q_calls, issued, issued_before,
               q_first>>
compVars == <<c_pc, c_call, c_comp, c_todo, c_p, c_loaded, c_params, heap_i, heap_users>>
insVars == <<b_optimized, b_sources, b_mapping, b_joins, b_where, b_group_by, b_order_by,
             b_validated, b_ncalls, b_result, b_sent>>

vars == <<d_name, d_op, d_out, t_type, t_col, t_text, t_parsed, t_pc,
          ddl_call, ddl_pc, ddl_raised, ddl_executed,
          q_model, q_where, q_order_by, q_limit, q_offset, q_calls, issued, issued_before,
          q_first,
          c_pc, c_call, c_comp, c_todo, c_p, c_loaded, c_params, heap_i, heap_users,
          b_optimized, b_sources, b_mapping, b_joins, b_where, b_group_by, b_order_by,
          b_validated, b_ncalls, b_result, b_sent>>

---------------------------------------------------------------------------
(* Bounds of the model. *)

\* longest identifier handed to the quoting functions
MaxIdentLen == 5

\* deepest nesting of Nullable / Array / LowCardinality wrappers
MaxDepth == 2

\* largest precision, scale or length of a parameterized type
MaxParam == 11

\* most columns of a table handed to the CREATE TABLE renderer
MaxCols == 2

\* most filter() calls chained on one Query
MaxFilters == 3

\* threads compiling statements at the same time
MaxThreads == 2

\* most builder calls made on one InsertBuilder
MaxBuilderCalls == 3

\* most statements one InsertBuilder hands to the client
MaxExecutes == 1

---------------------------------------------------------------------------
(* Python str primitives, on TLA+ strings. *)

\* F applied to v, with v evaluated once
Once(v, F(_)) == CHOOSE y \in {F(x) : x \in {v}} : TRUE

\* s[i] (1-based), a one-character string; "" outside the string
CharAt(s, i) == IF i >= 1 /\ i <= Len(s) THEN SubSeq(s, i, i) ELSE ""

\* s[i:] with a 1-based first index
From(s, i) == SubSeq(s, i, Len(s))

\* the characters str.strip() removes
IsSpace(c) == c \in {" ", "\t", "\n", "\r"}

\* s.startswith(p)
StartsWith(s, p) == Len(s) >= Len(p) /\ SubSeq(s, 1, Len(p)) = p

\* s.endswith(p)
EndsWith(s, p) == Len(s) >= Len(p) /\ SubSeq(s, Len(s) - Len(p) + 1, Len(s)) = p

RECURSIVE LStrip(_)
LStrip(s) ==
    IF Len(s) > 0 /\ IsSpace(CharAt(s, 1)) THEN LStrip(From(s, 2)) ELSE s

RECURSIVE RStrip(_)
RStrip(s) ==
    IF Len(s) > 0 /\ IsSpace(CharAt(s, Len(s))) THEN RStrip(SubSeq(s, 1, Len(s) - 1)) ELSE s

\* s.strip()
Strip(s) == RStrip(LStrip(s))

\* the indexes at or after i where sub occurs in s
Occurrences(s, sub, i) ==
    {j \in i..(Len(s) - Len(sub) + 1) : SubSeq(s, j, j + Len(sub) - 1) = sub}

\* s.find(sub, i) as a 1-based index, 0 when absent
FindFrom(s, sub, i) ==
    LET hits == Occurrences(s, sub, i)
    IN  IF hits = {} THEN 0 ELSE CHOOSE j \in hits : \A h \in hits : j <= h

Find(s, sub) == FindFrom(s, sub, 1)

\* sub in s
Contains(s, sub) == Find(s, sub) > 0

\* s.replace(c, r) for a one-character c
Replace(s, c, r) ==
    LET RECURSIVE ReplaceFrom(_)
        ReplaceFrom(i) ==
            IF i > Len(s) THEN ""
            ELSE (IF CharAt(s, i) = c THEN r ELSE CharAt(s, i)) \o ReplaceFrom(i + 1)
    IN  ReplaceFrom(1)

\* number of occurrences of the character c in s
Count(s, c) == Cardinality(Occurrences(s, c, 1))

\* sep.join(parts)
RECURSIVE Join(_, _)
Join(parts, sep) ==
    IF Len(parts) = 0 THEN ""
    ELSE IF Len(parts) = 1 THEN parts[1]
    ELSE parts[1] \o sep \o Join(Tail(parts), sep)

UPPER == "ABCDEFGHIJKLMNOPQRSTUVWXYZ"
LOWER == "abcdefghijklmnopqrstuvwxyz"
DIGITS == "0123456789"

\* c.lower() for one character
LowerChar(c) ==
    IF Contains(UPPER, c) THEN CharAt(LOWER, Find(UPPER, c)) ELSE c

\* s.lower()
Lower(s) ==
    LET RECURSIVE LowerFrom(_)
        LowerFrom(i) == IF i > Len(s) THEN "" ELSE LowerChar(CharAt(s, i)) \o LowerFrom(i + 1)
    IN  LowerFrom(1)

IsDigit(c) == Len(c) = 1 /\ Find(DIGITS, c) > 0

\* str(n) for an integer n
RECURSIVE ToStr(_)
ToStr(n) ==
    IF n < 0 THEN "-" \o ToStr(0 - n)
    ELSE IF n < 10 THEN CharAt(DIGITS, n + 1)
    ELSE ToStr(n \div 10) \o CharAt(DIGITS, (n % 10) + 1)

\* int(s) for a string of decimal digits
RECURSIVE ToInt(_)
ToInt(s) ==
    IF Len(s) = 0 THEN 0
    ELSE 10 * ToInt(SubSeq(s, 1, Len(s) - 1)) + (Find(DIGITS, CharAt(s, Len(s))) - 1)

\* the index of the first character at or after i that is no blank (\s*)
RECURSIVE SkipSpaces(_, _)
SkipSpaces(s, i) ==
    IF i <= Len(s) /\ IsSpace(CharAt(s, i)) THEN SkipSpaces(s, i + 1) ELSE i

\* the index of the first character at or after i that is no digit (\d*)
RECURSIVE SkipDigits(_, _)
SkipDigits(s, i) ==
    IF i <= Len(s) /\ IsDigit(CharAt(s, i)) THEN SkipDigits(s, i + 1) ELSE i

\* s.split()[0]: the first blank-delimited word of a string that has one
FirstWord(s) ==
    LET a == SkipSpaces(s, 1)
        RECURSIVE WordEnd(_)
        WordEnd(i) == IF i <= Len(s) /\ ~IsSpace(CharAt(s, i)) THEN WordEnd(i + 1) ELSE i
    IN  SubSeq(s, a, WordEnd(a) - 1)

\* every string over alphabet of length at most n
RECURSIVE StringsUpTo(_, _)
StringsUpTo(alphabet, n) ==
    IF n = 0 THEN {""}
    ELSE {""} \cup {c \o s : c \in alphabet, s \in StringsUpTo(alphabet, n - 1)}

---------------------------------------------------------------------------
(* dialect.py *)

QUOTE == "\""

\* The backquote character: a TLA+ string cannot hold one, "~" stands for it.
BACKTICK == "~"

strip_any_quotes(name) ==
    IF name = "" THEN name
    ELSE Once(Strip(name), LAMBDA s :
         IF \/ (StartsWith(s, QUOTE) /\ EndsWith(s, QUOTE))
            \/ (StartsWith(s, BACKTICK) /\ EndsWith(s, BACKTICK))
            \/ (StartsWith(s, "'") /\ EndsWith(s, "'"))
         THEN SubSeq(s, 2, Len(s) - 1)
         ELSE s)

\* a quoting that forgets to double the embedded quotes
quote_ident_undoubled(name) ==
    Once(strip_any_quotes(name), LAMBDA raw : QUOTE \o raw \o QUOTE)

quote_ident(name) ==
    Once(strip_any_quotes(name), LAMBDA raw :
         QUOTE \o Replace(raw, QUOTE, QUOTE \o QUOTE) \o QUOTE)

render_table_name(name) ==
    Once(Strip(name), LAMBDA s :
    Once(Find(s, "."), LAMBDA dot :
         IF dot > 0
         THEN Once(SubSeq(s, 1, dot - 1), LAMBDA db :
              Once(From(s, dot + 1), LAMBDA tbl :
                   quote_ident(db) \o "." \o quote_ident(tbl)))
         ELSE quote_ident(s)))

\* the identifiers tried: names with embedded and enclosing quotes, dots, blanks
IdentAlphabet == {"a", QUOTE, BACKTICK, "'", ".", " "}

IdentInputs == StringsUpTo(IdentAlphabet, MaxIdentLen)

DialectInit ==
    /\ d_name \in IdentInputs
    /\ d_op = "none"
    /\ d_out = ""

QuoteIdent ==
    /\ d_op = "none"
    /\ d_op' = "quote_ident"
    /\ d_out' = quote_ident(d_name)
    /\ UNCHANGED d_name
    /\ UNCHANGED <<typeVars, ddlVars, queryVars, compVars, insVars>>

RenderTableName ==
    /\ d_op = "none"
    /\ d_op' = "render_table_name"
    /\ d_out' = render_table_name(d_name)
    /\ UNCHANGED d_name
    /\ UNCHANGED <<typeVars, ddlVars, queryVars, compVars, insVars>>

DialectNext == QuoteIdent \/ RenderTableName

DialectIdle ==
    /\ d_name = ""
    /\ d_op = "none"
    /\ d_out = ""

---------------------------------------------------------------------------
(* The Column Types (types.py, as ddl.py and engine.py use them). *)

LeafKinds ==
    {"Int8", "Int16", "Int32", "Int64", "UInt8", "UInt16", "UInt32", "UInt64",
     "Float32", "Float64", "String", "UUID", "Bool", "Date", "Date32", "DateTime"}

WrapperKinds == {"Nullable", "Array", "LowCardinality"}

Leaf(kind) == [k |-> kind]
Decimal(p, sc) == [k |-> "Decimal", precision |-> p, scale |-> sc]
FixedString(n) == [k |-> "FixedString", n |-> n]
DateTime64(p) == [k |-> "DateTime64", precision |-> p]
Wrapper(kind, inner) == [k |-> kind, inner |-> inner]

\* no Column Type: the slot is unused
NoType == [k |-> "none"]

\* an exception leaving the call
Raise(exc) == [k |-> "raise", exc |-> exc]

Params == 0..MaxParam

RECURSIVE CHTypes(_)
CHTypes(depth) ==
    IF depth = 0
    THEN {Leaf(kind) : kind \in LeafKinds}
         \cup {Decimal(p, sc) : p \in Params, sc \in Params}
         \cup {FixedString(n) : n \in Params}
         \cup {DateTime64(p) : p \in Params}
    ELSE CHTypes(depth - 1)
         \cup {Wrapper(w, inner) : w \in WrapperKinds, inner \in CHTypes(depth - 1)}

---------------------------------------------------------------------------
(* ddl.py: _render_type *)

RECURSIVE render_type(_)
render_type(t) ==
    IF t.k = "str" THEN t.text
    ELSE IF t.k \in LeafKinds THEN t.k
    ELSE IF t.k = "Decimal"
         THEN "Decimal(" \o ToStr(t.precision) \o "," \o ToStr(t.scale) \o ")"
    ELSE IF t.k = "FixedString" THEN "FixedString(" \o ToStr(t.n) \o ")"
    ELSE IF t.k = "DateTime64" THEN "DateTime64(" \o ToStr(t.precision) \o ")"
    ELSE IF t.k = "Nullable" THEN "Nullable(" \o render_type(t.inner) \o ")"
    ELSE IF t.k = "Array" THEN "Array(" \o render_type(t.inner) \o ")"
    ELSE IF t.k = "LowCardinality" THEN "LowCardinality(" \o render_type(t.inner) \o ")"
    ELSE "String"

---------------------------------------------------------------------------
(* engine.py: _SIMPLE_MAP, the regular expressions, _parse_ch_type *)

SIMPLE_MAP_KEYS ==
    {"int8", "int16", "int32", "int64", "uint8", "uint16", "uint32", "uint64",
     "float32", "float64", "string", "uuid", "bool", "boolean", "date", "date32",
     "datetime"}

SIMPLE_MAP(key) ==
    CASE key = "int8" -> Leaf("Int8")
      [] key = "int16" -> Leaf("Int16")
      [] key = "int32" -> Leaf("Int32")
      [] key = "int64" -> Leaf("Int64")
      [] key = "uint8" -> Leaf("UInt8")
      [] key = "uint16" -> Leaf("UInt16")
      [] key = "uint32" -> Leaf("UInt32")
      [] key = "uint64" -> Leaf("UInt64")
      [] key = "float32" -> Leaf("Float32")
      [] key = "float64" -> Leaf("Float64")
      [] key = "string" -> Leaf("String")
      [] key = "uuid" -> Leaf("UUID")
      [] key = "bool" -> Leaf("Bool")
      [] key = "boolean" -> Leaf("Bool")
      [] key = "date" -> Leaf("Date")
      [] key = "date32" -> Leaf("Date32")
      [] key = "datetime" -> Leaf("DateTime")

NoMatch == [matched |-> FALSE]

\* re.I: s starts with keyword, whatever the case of its letters
StartsWithI(s, keyword) ==
    Len(s) >= Len(keyword) /\ Lower(SubSeq(s, 1, Len(keyword))) = keyword

\* keyword \s* \( at the start of s, ignoring case: the index after the "(",
\* 0 when s does not start so
OpenAfter(s, keyword) ==
    LET i == SkipSpaces(s, Len(keyword) + 1)
    IN  IF StartsWithI(s, keyword) /\ CharAt(s, i) = "(" THEN i + 1 ELSE 0

\* $: the end of the string, or the last line feed of the string
AtEnd(s, i) == i = Len(s) + 1 \/ (i = Len(s) /\ CharAt(s, i) = "\n")

\* ^(nullable|array|lowcardinality)\s*\(([^)]*)\)$ : a pattern whose group
\* stops at the first closing parenthesis
RE_WRAP1_first_close(s) ==
    LET wrap == IF StartsWithI(s, "nullable") THEN "nullable"
                ELSE IF StartsWithI(s, "array") THEN "array"
                ELSE IF StartsWithI(s, "lowcardinality") THEN "lowcardinality"
                ELSE ""
        open == IF wrap = "" THEN 0 ELSE OpenAfter(s, wrap)
        close == IF open = 0 THEN 0 ELSE FindFrom(s, ")", open)
    IN  IF close > 0 /\ AtEnd(s, close + 1)
        THEN [matched |-> TRUE, wrap |-> wrap, inner |-> SubSeq(s, open, close - 1)]
        ELSE NoMatch

\* ^(nullable|array|lowcardinality)\s*\((.*)\)$ with re.I: the greedy group
\* runs to the last ")" that "$" accepts, and "." is any character but "\n"
RE_WRAP1(s) ==
    LET wrap == IF StartsWithI(s, "nullable") THEN "nullable"
                ELSE IF StartsWithI(s, "array") THEN "array"
                ELSE IF StartsWithI(s, "lowcardinality") THEN "lowcardinality"
                ELSE ""
        open == IF wrap = "" THEN 0 ELSE OpenAfter(s, wrap)
        close == IF CharAt(s, Len(s)) = ")" THEN Len(s)
                 ELSE IF CharAt(s, Len(s)) = "\n" /\ CharAt(s, Len(s) - 1) = ")"
                      THEN Len(s) - 1
                 ELSE 0
    IN  IF open > 0 /\ close >= open /\ ~Contains(SubSeq(s, open, close - 1), "\n")
        THEN [matched |-> TRUE, wrap |-> wrap, inner |-> SubSeq(s, open, close - 1)]
        ELSE NoMatch

\* ^decimal\s*\(\s*(\d+)\s*,\s*(\d+)\s*\)\s*$ with re.I
RE_DECIMAL(s) ==
    LET open == OpenAfter(s, "decimal")
        a1 == SkipSpaces(s, open)
        a2 == SkipDigits(s, a1)
        comma == SkipSpaces(s, a2)
        b1 == SkipSpaces(s, comma + 1)
        b2 == SkipDigits(s, b1)
        close == SkipSpaces(s, b2)
    IN  IF /\ open > 0
           /\ a2 > a1
           /\ CharAt(s, comma) = ","
           /\ b2 > b1
           /\ CharAt(s, close) = ")"
           /\ \E e \in (close + 1)..SkipSpaces(s, close + 1) : AtEnd(s, e)
        THEN [matched |-> TRUE, g1 |-> SubSeq(s, a1, a2 - 1), g2 |-> SubSeq(s, b1, b2 - 1)]
        ELSE NoMatch

\* ^keyword\s*\(\s*(\d+)\s*\)\s*$ with re.I: _RE_FIXED and _RE_DT64
RE_ONE_NUMBER(s, keyword) ==
    LET open == OpenAfter(s, keyword)
        a1 == SkipSpaces(s, open)
        a2 == SkipDigits(s, a1)
        close == SkipSpaces(s, a2)
    IN  IF /\ open > 0
           /\ a2 > a1
           /\ CharAt(s, close) = ")"
           /\ \E e \in (close + 1)..SkipSpaces(s, close + 1) : AtEnd(s, e)
        THEN [matched |-> TRUE, g1 |-> SubSeq(s, a1, a2 - 1)]
        ELSE NoMatch

RE_FIXED(s) == RE_ONE_NUMBER(s, "fixedstring")

RE_DT64(s) == RE_ONE_NUMBER(s, "datetime64")

RECURSIVE parse_ch_type(_)
parse_ch_type(t) ==
    LET s == Strip(t)
        mw == RE_WRAP1(s)
        md == RE_DECIMAL(s)
        mf == RE_FIXED(s)
        m64 == RE_DT64(s)
    IN  IF mw.matched
        THEN LET inner == parse_ch_type(Strip(mw.inner))
             IN  IF inner.k = "raise" THEN inner
                 ELSE IF mw.wrap = "nullable" THEN Wrapper("Nullable", inner)
                 ELSE IF mw.wrap = "array" THEN Wrapper("Array", inner)
                 ELSE Wrapper("LowCardinality", inner)
        ELSE IF md.matched THEN Decimal(ToInt(md.g1), ToInt(md.g2))
        ELSE IF mf.matched THEN FixedString(ToInt(mf.g1))
        ELSE IF m64.matched THEN DateTime64(ToInt(m64.g1))
        ELSE IF s = "" THEN Raise("IndexError")   \* key.split()[0] of no word
        ELSE LET key == FirstWord(Lower(s))
             IN  IF key \in SIMPLE_MAP_KEYS THEN SIMPLE_MAP(key) ELSE Leaf("String")
---------------------------------------------------------------------------
(* The type layer at work: a Column Type rendered for a CREATE TABLE and  *)
(* read back, and engine.py's generate_model reading a DESCRIBE TABLE row. *)

\* a DESCRIBE TABLE row: the driver may report no type at all
Described(text) == [has_type |-> TRUE, type |-> text]
NoTypeReported == [has_type |-> FALSE, type |-> ""]
NoCol == [has_type |-> FALSE, type |-> "-"]

BaseTexts ==
    {"", " ", "Int8", "uint64", " String ", "Boolean", "Enum8('a'=1)", "Int8 foo",
     "DateTime('UTC')", "DateTime64(3, 'UTC')", "Decimal(10, 2)", "decimal ( 10 , 2 )",
     "Decimal(10)", "FixedString(16)", "fixedstring(x)", "DateTime64(3)",
     "Tuple(Int8, String)", "Map(String, Int8)", "Nullable(Int8", "Int8)", "(", ")",
     "Nullable", "Date\n", "Array(\n)", "Nothing"}

WrapSpellings == {"Nullable", "array ", "LOWCARDINALITY"}

\* the type texts a driver may report: the base texts under up to depth wrappers
RECURSIVE DriverTexts(_)
DriverTexts(depth) ==
    IF depth = 0 THEN BaseTexts
    ELSE DriverTexts(depth - 1)
         \cup {w \o "(" \o x \o ")" : w \in WrapSpellings, x \in DriverTexts(depth - 1)}

DescribedCols == {NoTypeReported} \cup {Described(x) : x \in DriverTexts(MaxDepth)}

TypeInit ==
    /\ \/ t_type \in CHTypes(MaxDepth) /\ t_col = NoCol /\ t_pc = "type"
       \/ t_type = NoType /\ t_col \in DescribedCols /\ t_pc = "described"
    /\ t_text = ""
    /\ t_parsed = NoType

\* ddl.py: a column's type is rendered into the CREATE TABLE text
RenderType ==
    /\ t_pc = "type"
    /\ t_text' = render_type(t_type)
    /\ t_pc' = "text"
    /\ UNCHANGED <<t_type, t_col, t_parsed>>
    /\ UNCHANGED <<dialectVars, ddlVars, queryVars, compVars, insVars>>

\* the rendered text is parsed back
ParseType ==
    /\ t_pc = "text"
    /\ t_parsed' = parse_ch_type(t_text)
    /\ t_pc' = "parsed"
    /\ UNCHANGED <<t_type, t_col, t_text>>
    /\ UNCHANGED <<dialectVars, ddlVars, queryVars, compVars, insVars>>

\* the type text generate_model hands to _parse_ch_type: col.get("type") or ""
ch_type_str(col) == IF col.has_type /\ col.type # "" THEN col.type ELSE ""

\* engine.py generate_model, one column of the description
GenerateModel ==
    /\ t_pc = "described"
    /\ t_text' = ch_type_str(t_col)
    /\ t_parsed' = parse_ch_type(ch_type_str(t_col))
    /\ t_pc' = "parsed"
    /\ UNCHANGED <<t_type, t_col>>
    /\ UNCHANGED <<dialectVars, ddlVars, queryVars, compVars, insVars>>

TypeNext == RenderType \/ ParseType \/ GenerateModel

TypeIdle ==
    /\ t_type = NoType
    /\ t_col = NoCol
    /\ t_text = ""
    /\ t_parsed = NoType
    /\ t_pc = "idle"

---------------------------------------------------------------------------
(* ddl.py: the CREATE TABLE renderer *)

\* a Column Type given as text, as create_table's mapping allows
TypeText(text) == [k |-> "str", text |-> text]

\* an optional argument: None, or a value
None == [given |-> FALSE]
Some(v) == [given |-> TRUE, v |-> v]

\* Python truthiness of an optional string or list
Truthy(opt) == opt.given /\ Len(opt.v) > 0

\* f(x) for each x of a sequence
MapSeq(f(_), xs) == [i \in 1..Len(xs) |-> f(xs[i])]

render_column(col) == quote_ident(col.name) \o " " \o render_type(col.type)

\* _render_columns_from_dict and _render_columns_from_model
render_columns(columns) == Join(MapSeq(render_column, columns), ",\n  ")

render_setting(st) ==
    IF st.t = "bool" THEN st.k \o "=" \o (IF st.b THEN "1" ELSE "0")
    ELSE IF st.t = "num" THEN st.k \o "=" \o ToStr(st.n)
    ELSE st.k \o "='" \o st.s \o "'"

\* _render_settings of a non-empty mapping
render_settings(settings) == "SETTINGS " \o Join(MapSeq(render_setting, settings), ", ")

render_index(ix) ==
    IF Truthy(ix.granularity)
    THEN "INDEX " \o quote_ident(ix.name) \o " " \o ix.expr \o " TYPE " \o ix.type
         \o " GRANULARITY " \o ix.granularity.v
    ELSE "INDEX " \o quote_ident(ix.name) \o " " \o ix.expr \o " TYPE " \o ix.type

\* _render_indexes of a non-empty list
render_indexes(indexes) == Join(MapSeq(render_index, indexes), ",\n  ")

quoted_list(names) == Join(MapSeq(quote_ident, names), ", ")

\* the statement both entry points assemble, from the clause after the table
\* name on: parts joined by "\n"
create_table_sql(c, order_by) ==
    LET head == "CREATE TABLE " \o (IF c.if_not_exists THEN "IF NOT EXISTS " ELSE "")
                \o render_table_name(c.name)
        cols == "(\n  " \o render_columns(c.columns)
        ix == IF Truthy(c.indexes) THEN <<",\n  " \o render_indexes(c.indexes.v)>> ELSE <<>>
        part == IF Truthy(c.partition_by) THEN <<"PARTITION BY " \o c.partition_by.v>> ELSE <<>>
        pk == IF Truthy(c.primary_key)
              THEN <<"PRIMARY KEY (" \o quoted_list(c.primary_key.v) \o ")">> ELSE <<>>
        ob == IF Truthy(order_by)
              THEN <<"ORDER BY (" \o quoted_list(order_by.v) \o ")">> ELSE <<>>
        ttl == IF Truthy(c.ttl) THEN <<"TTL " \o c.ttl.v>> ELSE <<>>
        st == IF Truthy(c.settings) THEN <<render_settings(c.settings.v)>> ELSE <<>>
        cm == IF Truthy(c.comment) THEN <<"COMMENT '" \o c.comment.v \o "'">> ELSE <<>>
    IN  Join(<<head, cols>> \o ix \o <<"\n)", "ENGINE = " \o c.engine>>
             \o part \o pk \o ob \o ttl \o st \o cm, "\n")

\* cols_lower["id"]: the last declared column whose lowercased name is "id",
\* 0 when there is none
RECURSIVE IdColumn(_, _)
IdColumn(columns, i) ==
    IF i = 0 THEN 0
    ELSE IF Lower(columns[i].name) = "id" THEN i
    ELSE IdColumn(columns, i - 1)

\* create_table's default ordering key; next(iter(())) raises on no column
default_order_by(columns) ==
    LET id == IdColumn(columns, Len(columns))
    IN  IF id > 0 THEN Some(<<columns[id].name>>)
        ELSE IF Len(columns) = 0 THEN Raise("StopIteration")
        ELSE Some(<<columns[1].name>>)

\* the ordering key create_table uses: the default when order_by is None
order_by_defaulted(c) ==
    IF c.order_by.given THEN c.order_by ELSE default_order_by(c.columns)

\* the ordering key create_table_from_model uses: getattr(model, "__order_by__", None)
model_order_by(c) == c.order_by

ColNames == {"id", "ID", "ts", "name"}

ColTypes == {Leaf("UInt64"), TypeText("DateTime64(3)")}

\* the ordered column mappings: distinct names, at most n columns
RECURSIVE ColumnLists(_)
ColumnLists(n) ==
    IF n = 0 THEN {<<>>}
    ELSE ColumnLists(n - 1)
         \cup {Append(cs, [name |-> nm, type |-> ty]) :
                 cs \in {x \in ColumnLists(n - 1) : Len(x) = n - 1},
                 nm \in ColNames, ty \in ColTypes}

DistinctNames(cs) == \A i, j \in 1..Len(cs) : i # j => cs[i].name # cs[j].name

OrderBys == {None, Some(<<>>), Some(<<"ts">>), Some(<<"name", "ts">>)}

\* the other clauses: all left out, or all given
PlainOptions ==
    [engine |-> "MergeTree", partition_by |-> None, primary_key |-> None, ttl |-> None,
     indexes |-> None, settings |-> None, comment |-> None]

FullOptions ==
    [engine |-> "ReplacingMergeTree",
     partition_by |-> Some("toYYYYMM(ts)"),
     primary_key |-> Some(<<"ts">>),
     ttl |-> Some("ts + INTERVAL 1 DAY"),
     indexes |-> Some(<<[name |-> "ix", expr |-> "name", type |-> "bloom_filter",
                         granularity |-> Some("4")],
                        [name |-> "iy", expr |-> "ts", type |-> "minmax",
                         granularity |-> None]>>),
     settings |-> Some(<<[k |-> "index_granularity", t |-> "num", n |-> 8192, b |-> FALSE, s |-> ""],
                         [k |-> "allow_nullable_key", t |-> "bool", n |-> 0, b |-> TRUE, s |-> ""],
                         [k |-> "storage_policy", t |-> "str", n |-> 0, b |-> FALSE, s |-> "hot"]>>),
     comment |-> Some("events")]

DdlCalls ==
    {[entry |-> e, name |-> nm, columns |-> cs, order_by |-> ob, if_not_exists |-> ine,
      engine |-> o.engine, partition_by |-> o.partition_by, primary_key |-> o.primary_key,
      ttl |-> o.ttl, indexes |-> o.indexes, settings |-> o.settings, comment |-> o.comment] :
        e \in {"create_table", "create_table_from_model"},
        nm \in {"events", "db.events"},
        cs \in {x \in ColumnLists(MaxCols) : DistinctNames(x)},
        ob \in OrderBys,
        ine \in BOOLEAN,
        o \in {PlainOptions, FullOptions}}

DdlInit ==
    /\ ddl_call \in DdlCalls
    /\ ddl_pc = "ready"
    /\ ddl_raised = ""
    /\ ddl_executed = <<>>

\* create_table(db, name, columns, order_by=..., ...)
CreateTable ==
    /\ ddl_pc = "ready"
    /\ ddl_call.entry = "create_table"
    /\ LET ob == order_by_defaulted(ddl_call)
       IN  IF "k" \in DOMAIN ob
           THEN /\ ddl_raised' = ob.exc
                /\ ddl_executed' = ddl_executed
           ELSE /\ ddl_raised' = ""
                /\ ddl_executed' = Append(ddl_executed, create_table_sql(ddl_call, ob))
    /\ ddl_pc' = "done"
    /\ UNCHANGED ddl_call
    /\ UNCHANGED <<dialectVars, typeVars, queryVars, compVars, insVars>>

\* create_table_from_model(db, model)
CreateTableFromModel ==
    /\ ddl_pc = "ready"
    /\ ddl_call.entry = "create_table_from_model"
    /\ ddl_raised' = ""
    /\ ddl_executed' = Append(ddl_executed, create_table_sql(ddl_call, model_order_by(ddl_call)))
    /\ ddl_pc' = "done"
    /\ UNCHANGED ddl_call
    /\ UNCHANGED <<dialectVars, typeVars, queryVars, compVars, insVars>>

DdlNext == CreateTable \/ CreateTableFromModel

DdlIdle ==
    /\ ddl_call = [entry |-> "none"]
    /\ ddl_pc = "idle"
    /\ ddl_raised = ""
    /\ ddl_executed = <<>>

---------------------------------------------------------------------------
(* expressions.py: the expression tree *)

\* literal values: an int, a str, a list (held by its text)
IntV(n) == [t |-> "int", n |-> n, s |-> ""]
StrV(text) == [t |-> "str", n |-> 0, s |-> text]
ListV(text) == [t |-> "list", n |-> 0, s |-> text]

ColumnExpr(name) == [k |-> "col", name |-> name]
ValueExpr(value) == [k |-> "val", value |-> value]
BinaryExpr(left, op, right) == [k |-> "bin", left |-> left, op |-> op, right |-> right]
LogicalExpr(left, op, right) == BinaryExpr(left, op, right)
RawExpr(sql) == [k |-> "raw", sql |-> sql]
NoExpr == [k |-> "none"]

\* a parameter map with no binding
NoParams == [name \in {} |-> IntV(0)]

\* a merge that keeps the left map alone
MergeParams_left_only(lp, rp) == lp

\* {**lp, **rp}: on a shared name the right map wins
MergeParams(lp, rp) ==
    [name \in DOMAIN lp \cup DOMAIN rp |-> IF name \in DOMAIN rp THEN rp[name] ELSE lp[name]]

placeholder(pname) == "%(" \o pname \o ")s"

---------------------------------------------------------------------------
(* compiler.py: Compiler *)

\* an add_param that hands out a name and leaves the counter where it was
add_param_stuck(i) == [pname |-> "p" \o ToStr(i), i |-> i]

\* Compiler.add_param with self._i = i: the name, and the counter after it
add_param(i) == [pname |-> "p" \o ToStr(i), i |-> i + 1]

\* the text of a literal value, as formatting it into SQL would give
TextOf(value) == IF value.t = "int" THEN ToStr(value.n) ELSE value.s

\* a ValueExpr.to_sql that writes the value into the text
value_to_sql_inlined(value, i) ==
    [sql |-> "'" \o TextOf(value) \o "'", params |-> NoParams, i |-> i]

\* ValueExpr.to_sql with the compiler's counter at i
value_to_sql(value, i) ==
    LET a == add_param(i)
    IN  [sql |-> placeholder(a.pname), params |-> (a.pname :> value), i |-> a.i]

\* Expr.to_sql with the compiler's counter at i: text, bindings, counter after
RECURSIVE to_sql(_, _)
to_sql(e, i) ==
    IF e.k = "col" THEN [sql |-> quote_ident(e.name), params |-> NoParams, i |-> i]
    ELSE IF e.k = "val" THEN value_to_sql(e.value, i)
    ELSE IF e.k = "raw" THEN [sql |-> e.sql, params |-> NoParams, i |-> i]
    ELSE Once(to_sql(e.left, i), LAMBDA l :
         Once(to_sql(e.right, l.i), LAMBDA r :
            [sql |-> "(" \o l.sql \o " " \o e.op \o " " \o r.sql \o ")",
             params |-> MergeParams(l.params, r.params),
             i |-> r.i]))

\* the values to_sql hands to add_param, in the order it visits them
RECURSIVE Literals(_)
Literals(e) ==
    IF e.k = "val" THEN <<e.value>>
    ELSE IF e.k = "bin" THEN Literals(e.left) \o Literals(e.right)
    ELSE <<>>

order_part(ob) == quote_ident(ob.col) \o " " \o ob.direction

\* Compiler.select on a compiler whose counter is at i0, the WHERE part
\* compiled to w
select_from(model, w, has_where, order_by, limit, offset) ==
    LET names == Join(MapSeq(quote_ident, model.columns), ", ")
        cols == IF names = "" THEN "*" ELSE names
        base == "SELECT " \o cols \o " FROM " \o render_table_name(model.table)
        s1 == IF has_where THEN base \o " WHERE " \o w.sql ELSE base
        s2 == IF Truthy(order_by)
              THEN s1 \o " ORDER BY " \o Join(MapSeq(order_part, order_by.v), ", ")
              ELSE s1
        lim == add_param(w.i)
        i1 == IF limit.given THEN lim.i ELSE w.i
        s3 == IF limit.given THEN s2 \o " LIMIT " \o placeholder(lim.pname) ELSE s2
        p3 == IF limit.given THEN MergeParams(w.params, lim.pname :> IntV(limit.v))
              ELSE w.params
        off == add_param(i1)
        i2 == IF offset.given THEN off.i ELSE i1
        s4 == IF offset.given THEN s3 \o " OFFSET " \o placeholder(off.pname) ELSE s3
        p4 == IF offset.given THEN MergeParams(p3, off.pname :> IntV(offset.v)) ELSE p3
    IN  [sql |-> s4, params |-> p4, i |-> i2]

\* Compiler.select on a compiler whose counter is at i0
select(model, where, order_by, limit, offset, i0) ==
    Once(IF where.k = "none" THEN [sql |-> "", params |-> NoParams, i |-> i0]
         ELSE to_sql(where, i0),
         LAMBDA w : select_from(model, w, where.k # "none", order_by, limit, offset))

---------------------------------------------------------------------------
(* query.py: Query *)

\* a filter() that puts the new predicate in front of the tree
filter_prepend(where, expr) ==
    IF where.k = "none" THEN expr ELSE LogicalExpr(expr, "AND", where)

\* Query.filter: the new _where
filter(where, expr) ==
    IF where.k = "none" THEN expr ELSE LogicalExpr(where, "AND", expr)

\* a Compiler that carries on where the compiler of the last call stopped
Compiler_carried_on(last) == Cardinality(DOMAIN last.params)

\* comp = Compiler(): the _i of the new object, whatever call came last
Compiler_init(last) == 0

\* Query.all: the statement a fresh Compiler gives
all_statement(model, where, order_by, limit, offset) ==
    select(model, where, order_by, limit, offset, Compiler_init(issued))

\* a count() that compiles the query with its limit and offset
count_select_limited(model, where, order_by, limit, offset) ==
    select(model, where, order_by, limit, offset, 0)

\* Query.count: the SELECT a fresh Compiler gives, limit and offset None
count_select(model, where, order_by, limit, offset) ==
    select(model, where, order_by, None, None, Compiler_init(issued))

\* a first() that leaves the limit as it is
first_limit_kept(limit) == limit

\* Query.first: the new _limit
first_limit(limit) == IF ~limit.given \/ limit.v > 1 THEN Some(1) ELSE limit

count_wrap(sql) == "SELECT count() FROM (" \o sql \o ") AS \"sub\""

NoCall == [fn |-> "none", sql |-> "", params |-> NoParams]

Models == {[table |-> "shop.users", columns |-> <<"id", "name">>]}

\* the predicates handed to filter(): one literal each
LiteralPredicates ==
    {BinaryExpr(ColumnExpr("id"), "=", ValueExpr(IntV(5))),
     BinaryExpr(ColumnExpr("name"), "LIKE", ValueExpr(StrV("a%'; DROP TABLE users; --"))),
     BinaryExpr(ColumnExpr("name"), "!=", ValueExpr(StrV("SELECT")))}

\* a predicate built with | from two comparisons: two literals
CompoundPredicates ==
    {LogicalExpr(BinaryExpr(ColumnExpr("id"), ">", ValueExpr(IntV(1))), "OR",
                 BinaryExpr(ColumnExpr("id"), "IN", ValueExpr(ListV("[7, 8]"))))}

RawFilters == {"1 = 1"}

OrderByArgs == {<<[col |-> "name", direction |-> "DESC"], [col |-> "id", direction |-> "ASC"]>>}

LimitArgs == {1, 10}

OffsetArgs == {20}

QueryInit ==
    /\ q_model \in Models
    /\ q_where = NoExpr
    /\ q_order_by = None
    /\ q_limit = None
    /\ q_offset = None
    /\ q_calls = <<>>
    /\ issued = NoCall
    /\ issued_before = NoCall
    /\ q_first = FALSE

\* Query.filter(expr) with an expression
Filter ==
    /\ Len(q_calls) < MaxFilters
    /\ \E expr \in LiteralPredicates \cup CompoundPredicates :
          /\ q_where' = filter(q_where, expr)
          /\ q_calls' = Append(q_calls, expr)
    /\ issued' = NoCall
    /\ issued_before' = NoCall
    /\ UNCHANGED <<q_model, q_order_by, q_limit, q_offset, q_first>>
    /\ UNCHANGED <<dialectVars, typeVars, ddlVars, compVars, insVars>>

\* Query.filter(expr) with a str: wrapped in _Raw
FilterRaw ==
    /\ Len(q_calls) < MaxFilters
    /\ \E text \in RawFilters :
          /\ q_where' = filter(q_where, RawExpr(text))
          /\ q_calls' = Append(q_calls, RawExpr(text))
    /\ issued' = NoCall
    /\ issued_before' = NoCall
    /\ UNCHANGED <<q_model, q_order_by, q_limit, q_offset, q_first>>
    /\ UNCHANGED <<dialectVars, typeVars, ddlVars, compVars, insVars>>

\* Query.order_by(*cols)
OrderBy ==
    /\ \E cols \in OrderByArgs : q_order_by' = Some(cols)
    /\ issued' = NoCall
    /\ issued_before' = NoCall
    /\ UNCHANGED <<q_model, q_where, q_limit, q_offset, q_calls, q_first>>
    /\ UNCHANGED <<dialectVars, typeVars, ddlVars, compVars, insVars>>

\* Query.limit(n)
Limit ==
    /\ \E n \in LimitArgs : q_limit' = Some(n)
    /\ issued' = NoCall
    /\ issued_before' = NoCall
    /\ q_first' = FALSE
    /\ UNCHANGED <<q_model, q_where, q_order_by, q_offset, q_calls>>
    /\ UNCHANGED <<dialectVars, typeVars, ddlVars, compVars, insVars>>

\* Query.offset(n)
Offset ==
    /\ \E n \in OffsetArgs : q_offset' = Some(n)
    /\ issued' = NoCall
    /\ issued_before' = NoCall
    /\ UNCHANGED <<q_model, q_where, q_order_by, q_limit, q_calls, q_first>>
    /\ UNCHANGED <<dialectVars, typeVars, ddlVars, compVars, insVars>>

\* Query.all()
All ==
    /\ \E st \in {all_statement(q_model, q_where, q_order_by, q_limit, q_offset)} :
          issued' = [fn |-> "execute", sql |-> st.sql, params |-> st.params]
    /\ issued_before' = IF issued.fn = "execute" THEN issued ELSE NoCall
    /\ UNCHANGED <<q_model, q_where, q_order_by, q_limit, q_offset, q_calls, q_first>>
    /\ UNCHANGED <<dialectVars, typeVars, ddlVars, compVars, insVars>>

\* Query.first()
First ==
    /\ q_limit' = first_limit(q_limit)
    /\ \E st \in {all_statement(q_model, q_where, q_order_by, q_limit', q_offset)} :
          issued' = [fn |-> "execute", sql |-> st.sql, params |-> st.params]
    /\ issued_before' = IF issued.fn = "execute" /\ q_limit' = q_limit THEN issued ELSE NoCall
    /\ q_first' = TRUE
    /\ UNCHANGED <<q_model, q_where, q_order_by, q_offset, q_calls>>
    /\ UNCHANGED <<dialectVars, typeVars, ddlVars, compVars, insVars>>

\* Query.count()
QueryCount ==
    /\ \E st \in {count_select(q_model, q_where, q_order_by, q_limit, q_offset)} :
          issued' = [fn |-> "scalar", sql |-> count_wrap(st.sql), params |-> st.params]
    /\ issued_before' = NoCall
    /\ UNCHANGED <<q_model, q_where, q_order_by, q_limit, q_offset, q_calls, q_first>>
    /\ UNCHANGED <<dialectVars, typeVars, ddlVars, compVars, insVars>>

QueryNext == Filter \/ FilterRaw \/ OrderBy \/ Limit \/ Offset \/ All \/ First \/ QueryCount

QueryIdle ==
    /\ q_model = [table |-> "", columns |-> <<>>]
    /\ q_where = NoExpr
    /\ q_order_by = None
    /\ q_limit = None
    /\ q_offset = None
    /\ q_calls = <<>>
    /\ issued = NoCall
    /\ issued_before = NoCall
    /\ q_first = FALSE

---------------------------------------------------------------------------
(* Concurrent compilations: every thread makes one call of Query.all,      *)
(* Query.count or Session.insert_from_select, and the calls interleave at   *)
(* the reads and writes of Compiler._i.                                     *)

Threads == 1..MaxThreads

EntryPoints == {"all", "count", "insert_from_select"}

\* the Query states compiled: three literals with a limit and an offset, and
\* a limit alone
CompQueries ==
    {[model |-> m, where |-> w, order_by |-> None, limit |-> Some(10), offset |-> Some(20)] :
        m \in Models,
        w \in {LogicalExpr(BinaryExpr(ColumnExpr("id"), "=", ValueExpr(IntV(5))), "AND", e) :
                  e \in CompoundPredicates}}
    \cup {[model |-> m, where |-> NoExpr, order_by |-> None, limit |-> Some(1), offset |-> None] :
        m \in Models}

\* the limit and the offset the entry point hands to Compiler.select
limit_arg(fn, q) == IF fn = "count" THEN None ELSE q.limit
offset_arg(fn, q) == IF fn = "count" THEN None ELSE q.offset

\* the values Compiler.select hands to add_param, in order
to_bind(fn, q) ==
    Literals(q.where)
        \o (IF limit_arg(fn, q).given THEN <<IntV(limit_arg(fn, q).v)>> ELSE <<>>)
        \o (IF offset_arg(fn, q).given THEN <<IntV(offset_arg(fn, q).v)>> ELSE <<>>)

\* one Compiler object that every call would use
SharedCompiler(t) == 1

\* comp = Compiler(): the object the call of thread t constructs, its own
NewCompiler(t) == t

\* a map of objects with object o set to v
HeapSet(heap, o, v) == [x \in DOMAIN heap \cup {o} |-> IF x = o THEN v ELSE heap[x]]

NoThreads == [t \in {} |-> 0]

CompInit ==
    /\ c_pc = [t \in Threads |-> "idle"]
    /\ c_call = [t \in Threads |-> [fn |-> "none"]]
    /\ c_comp = [t \in Threads |-> 0]
    /\ c_todo = [t \in Threads |-> <<>>]
    /\ c_p = [t \in Threads |-> ""]
    /\ c_loaded = [t \in Threads |-> 0]
    /\ c_params = [t \in Threads |-> <<>>]
    /\ heap_i = NoThreads
    /\ heap_users = NoThreads

\* a thread calls all(), count() or insert_from_select(target, query)
Call(t) ==
    /\ c_pc[t] = "idle"
    /\ \E fn \in EntryPoints, q \in CompQueries :
          c_call' = [c_call EXCEPT ![t] = [fn |-> fn, query |-> q]]
    /\ c_pc' = [c_pc EXCEPT ![t] = "construct"]
    /\ UNCHANGED <<c_comp, c_todo, c_p, c_loaded, c_params, heap_i, heap_users>>
    /\ UNCHANGED <<dialectVars, typeVars, ddlVars, queryVars, insVars>>

\* comp = Compiler(): __init__ sets _i to 0; select starts
Construct(t) ==
    /\ c_pc[t] = "construct"
    /\ c_comp' = [c_comp EXCEPT ![t] = NewCompiler(t)]
    /\ heap_i' = HeapSet(heap_i, c_comp'[t], 0)
    /\ heap_users' = HeapSet(heap_users, c_comp'[t],
                             IF c_comp'[t] \in DOMAIN heap_users THEN heap_users[c_comp'[t]] ELSE {})
    /\ c_todo' = [c_todo EXCEPT ![t] = to_bind(c_call[t].fn, c_call[t].query)]
    /\ c_pc' = [c_pc EXCEPT ![t] = "select"]
    /\ UNCHANGED <<c_call, c_p, c_loaded, c_params>>
    /\ UNCHANGED <<dialectVars, typeVars, ddlVars, queryVars, insVars>>

\* add_param: p = f"p{self._i}"
AddParamName(t) ==
    /\ c_pc[t] = "select"
    /\ c_todo[t] # <<>>
    /\ c_p' = [c_p EXCEPT ![t] = "p" \o ToStr(heap_i[c_comp[t]])]
    /\ heap_users' = [heap_users EXCEPT ![c_comp[t]] = @ \cup {t}]
    /\ c_pc' = [c_pc EXCEPT ![t] = "load"]
    /\ UNCHANGED <<c_call, c_comp, c_todo, c_loaded, c_params, heap_i>>
    /\ UNCHANGED <<dialectVars, typeVars, ddlVars, queryVars, insVars>>

\* add_param: self._i += 1, the load of self._i
AddParamLoad(t) ==
    /\ c_pc[t] = "load"
    /\ c_loaded' = [c_loaded EXCEPT ![t] = heap_i[c_comp[t]]]
    /\ c_pc' = [c_pc EXCEPT ![t] = "store"]
    /\ UNCHANGED <<c_call, c_comp, c_todo, c_p, c_params, heap_i, heap_users>>
    /\ UNCHANGED <<dialectVars, typeVars, ddlVars, queryVars, insVars>>

\* add_param: self._i += 1, the store; return p, which the caller binds
AddParamStore(t) ==
    /\ c_pc[t] = "store"
    /\ heap_i' = [heap_i EXCEPT ![c_comp[t]] = c_loaded[t] + 1]
    /\ c_params' = [c_params EXCEPT ![t] = Append(@, [name |-> c_p[t], value |-> Head(c_todo[t])])]
    /\ c_todo' = [c_todo EXCEPT ![t] = Tail(@)]
    /\ c_pc' = [c_pc EXCEPT ![t] = "select"]
    /\ UNCHANGED <<c_call, c_comp, c_p, c_loaded, heap_users>>
    /\ UNCHANGED <<dialectVars, typeVars, ddlVars, queryVars, insVars>>

\* select returns sql, params
Return(t) ==
    /\ c_pc[t] = "select"
    /\ c_todo[t] = <<>>
    /\ c_pc' = [c_pc EXCEPT ![t] = "done"]
    /\ UNCHANGED <<c_call, c_comp, c_todo, c_p, c_loaded, c_params, heap_i, heap_users>>
    /\ UNCHANGED <<dialectVars, typeVars, ddlVars, queryVars, insVars>>

CompCall == \E t \in Threads : Call(t)
CompConstruct == \E t \in Threads : Construct(t)
CompAddParamName == \E t \in Threads : AddParamName(t)
CompAddParamLoad == \E t \in Threads : AddParamLoad(t)
CompAddParamStore == \E t \in Threads : AddParamStore(t)
CompReturn == \E t \in Threads : Return(t)

CompNext ==
    \/ CompCall \/ CompConstruct \/ CompAddParamName
    \/ CompAddParamLoad \/ CompAddParamStore \/ CompReturn

CompIdle ==
    /\ c_pc = NoThreads
    /\ c_call = NoThreads
    /\ c_comp = NoThreads
    /\ c_todo = NoThreads
    /\ c_p = NoThreads
    /\ c_loaded = NoThreads
    /\ c_params = NoThreads
    /\ heap_i = NoThreads
    /\ heap_users = NoThreads

---------------------------------------------------------------------------
(* insert_builder.py: InsertBuilder, and Session.insert_from_select with   *)
(* the SELECT text it is handed.                                           *)

\* T(alias, name)
T(alias, name) == [alias |-> alias, name |-> name]

\* dict.update: the value of a known key is replaced in place, a new key is
\* appended
RECURSIVE DictUpdate(_, _)
DictUpdate(d, items) ==
    IF items = <<>> THEN d
    ELSE LET it == Head(items)
             known == \E j \in 1..Len(d) : d[j].col = it.col
             d1 == IF known
                   THEN [j \in 1..Len(d) |-> IF d[j].col = it.col THEN it ELSE d[j]]
                   ELSE Append(d, it)
         IN  DictUpdate(d1, Tail(items))

\* the builder's target, a model class
InsertTarget == [table |-> "shop.daily", columns |-> <<"uid", "n">>]

\* the FROM clause of sources 1..n: the first source, then a JOIN per source
RECURSIVE from_clause(_, _, _)
from_clause(sources, joins, n) ==
    IF n = 0 THEN ""
    ELSE IF n = 1 THEN render_table_name(sources[1].name) \o " AS " \o sources[1].alias
    ELSE LET on == IF n - 1 <= Len(joins) THEN joins[n - 1] ELSE ""
         IN  from_clause(sources, joins, n - 1)
                \o " JOIN " \o render_table_name(sources[n].name) \o " AS " \o sources[n].alias
                \o (IF on # "" THEN " ON " \o on ELSE "")

select_item(it) == it.expr \o " AS " \o quote_ident(it.col)

col_of(it) == it.col

\* a compile() that does not look whether there are sources
sources_unchecked(sources, optimized) == ""

\* assert self._sources, and self._sources[0] where the assert is removed:
\* the exception raised, "" when there is a source
sources_checked(sources, optimized) ==
    IF sources # <<>> THEN ""
    ELSE IF optimized THEN "IndexError" ELSE "AssertionError"

\* InsertBuilder.compile: the two texts, or the exception raised
compile(sources, mapping, joins, where, group_by, order_by, optimized) ==
    IF sources_checked(sources, optimized) # ""
    THEN Raise(sources_checked(sources, optimized))
    ELSE IF mapping = <<>> /\ ~optimized THEN Raise("AssertionError")
    ELSE Once("SELECT " \o Join(MapSeq(select_item, mapping), ", ")
                \o " FROM " \o from_clause(sources, joins, Len(sources))
                \o (IF where # <<>> THEN " WHERE " \o Join(where, " AND ") ELSE "")
                \o (IF group_by # <<>> THEN " GROUP BY " \o Join(group_by, ", ") ELSE "")
                \o (IF order_by # <<>> THEN " ORDER BY " \o Join(order_by, ", ") ELSE ""),
              LAMBDA select_sql :
                [k |-> "compiled",
                 insert_sql |-> "INSERT INTO " \o render_table_name(InsertTarget.table)
                                  \o " (" \o Join(MapSeq(quote_ident, MapSeq(col_of, mapping)), ", ")
                                  \o ") " \o select_sql,
                 select_sql |-> select_sql])

\* Session.insert_from_select(target, select, columns=columns) with a str
\* select: the statement handed to the client
insert_from_select_text(target, sql_sel, columns) ==
    LET cols == IF columns # <<>> THEN columns ELSE target.columns
    IN  "INSERT INTO " \o render_table_name(target.table)
            \o " (" \o Join(MapSeq(quote_ident, cols), ", ") \o ") " \o sql_sel

SourcesArgs ==
    {<<>>, <<T("e", "events")>>, <<T("e", "events"), T("u", "shop.users")>>}

MapArgs ==
    {<<[col |-> "uid", expr |-> "e.user_id"]>>,
     <<[col |-> "n", expr |-> "count()"], [col |-> "uid", expr |-> "u.id"]>>}

JoinArgs == {<<"e.user_id = u.id">>}

WhereArgs == {<<"e.ts > 0">>}

GroupByArgs == {<<"e.user_id">>}

InsOrderByArgs == {<<"uid">>}

NoResult == [k |-> "none"]

InsInit ==
    /\ b_optimized \in BOOLEAN
    /\ b_sources = <<>>
    /\ b_mapping = <<>>
    /\ b_joins = <<>>
    /\ b_where = <<>>
    /\ b_group_by = <<>>
    /\ b_order_by = <<>>
    /\ b_validated = FALSE
    /\ b_ncalls = 0
    /\ b_result = NoResult
    /\ b_sent = <<>>

\* what every builder call does besides its own list
BuilderCall ==
    /\ b_ncalls < MaxBuilderCalls
    /\ b_ncalls' = b_ncalls + 1
    /\ b_result' = NoResult
    /\ UNCHANGED <<b_optimized, b_sent>>
    /\ UNCHANGED <<dialectVars, typeVars, ddlVars, queryVars, compVars>>

InsSources ==
    /\ BuilderCall
    /\ \E tables \in SourcesArgs : b_sources' = b_sources \o tables
    /\ UNCHANGED <<b_mapping, b_joins, b_where, b_group_by, b_order_by, b_validated>>

InsMap ==
    /\ BuilderCall
    /\ \E mapping \in MapArgs : b_mapping' = DictUpdate(b_mapping, mapping)
    /\ UNCHANGED <<b_sources, b_joins, b_where, b_group_by, b_order_by, b_validated>>

InsJoinOn ==
    /\ BuilderCall
    /\ \E joins \in JoinArgs : b_joins' = b_joins \o joins
    /\ UNCHANGED <<b_sources, b_mapping, b_where, b_group_by, b_order_by, b_validated>>

InsWhere ==
    /\ BuilderCall
    /\ \E filters \in WhereArgs : b_where' = b_where \o filters
    /\ UNCHANGED <<b_sources, b_mapping, b_joins, b_group_by, b_order_by, b_validated>>

InsGroupBy ==
    /\ BuilderCall
    /\ \E cols \in GroupByArgs : b_group_by' = b_group_by \o cols
    /\ UNCHANGED <<b_sources, b_mapping, b_joins, b_where, b_order_by, b_validated>>

InsOrderBy ==
    /\ BuilderCall
    /\ \E cols \in InsOrderByArgs : b_order_by' = b_order_by \o cols
    /\ UNCHANGED <<b_sources, b_mapping, b_joins, b_where, b_group_by, b_validated>>

InsValidate ==
    /\ BuilderCall
    /\ b_validated' = TRUE
    /\ UNCHANGED <<b_sources, b_mapping, b_joins, b_where, b_group_by, b_order_by>>

\* InsertBuilder.compile()
InsCompile ==
    /\ b_result' = compile(b_sources, b_mapping, b_joins, b_where, b_group_by, b_order_by,
                           b_optimized)
    /\ UNCHANGED <<b_optimized, b_sources, b_mapping, b_joins, b_where, b_group_by,
                   b_order_by, b_validated, b_ncalls, b_sent>>
    /\ UNCHANGED <<dialectVars, typeVars, ddlVars, queryVars, compVars>>

\* InsertBuilder.execute(): compile(), then session.insert_from_select with
\* the SELECT text and the mapped columns
InsExecute ==
    /\ Len(b_sent) < MaxExecutes
    /\ \E sqls \in {compile(b_sources, b_mapping, b_joins, b_where, b_group_by, b_order_by,
                            b_optimized)} :
          IF sqls.k = "raise"
          THEN b_result' = sqls /\ b_sent' = b_sent
          ELSE \E sql \in {insert_from_select_text(InsertTarget, sqls.select_sql,
                                                   MapSeq(col_of, b_mapping))} :
                  /\ b_sent' = Append(b_sent, sql)
                  /\ b_result' = [k |-> "executed", sql |-> sql]
    /\ UNCHANGED <<b_optimized, b_sources, b_mapping, b_joins, b_where, b_group_by,
                   b_order_by, b_validated, b_ncalls>>
    /\ UNCHANGED <<dialectVars, typeVars, ddlVars, queryVars, compVars>>

InsNext ==
    \/ InsSources \/ InsMap \/ InsJoinOn \/ InsWhere \/ InsGroupBy \/ InsOrderBy
    \/ InsValidate \/ InsCompile \/ InsExecute

InsIdle ==
    /\ b_optimized = FALSE
    /\ b_sources = <<>>
    /\ b_mapping = <<>>
    /\ b_joins = <<>>
    /\ b_where = <<>>
    /\ b_group_by = <<>>
    /\ b_order_by = <<>>
    /\ b_validated = FALSE
    /\ b_ncalls = 0
    /\ b_result = NoResult
    /\ b_sent = <<>>

---------------------------------------------------------------------------
(* The specifications: one per component, the others idle. *)

InitDialect == DialectInit /\ TypeIdle /\ DdlIdle /\ QueryIdle /\ CompIdle /\ InsIdle

SpecDialect == InitDialect /\ [][DialectNext]_vars

InitType == TypeInit /\ DialectIdle /\ DdlIdle /\ QueryIdle /\ CompIdle /\ InsIdle

SpecType == InitType /\ [][TypeNext]_vars

InitDdl == DdlInit /\ DialectIdle /\ TypeIdle /\ QueryIdle /\ CompIdle /\ InsIdle

SpecDdl == InitDdl /\ [][DdlNext]_vars

Init == QueryInit /\ DialectIdle /\ TypeIdle /\ DdlIdle /\ CompIdle /\ InsIdle

Next == QueryNext

Spec == Init /\ [][Next]_vars

InitComp == CompInit /\ DialectIdle /\ TypeIdle /\ DdlIdle /\ QueryIdle /\ InsIdle

SpecComp == InitComp /\ [][CompNext]_vars

InitIns == InsInit /\ DialectIdle /\ TypeIdle /\ DdlIdle /\ QueryIdle /\ CompIdle

SpecIns == InitIns /\ [][InsNext]_vars

---------------------------------------------------------------------------
(* Identifier quoting: claims C4 and C5. *)

\* the text between the first and the last character of s
Inner(s) == SubSeq(s, 2, Len(s) - 1)

\* every double quote of s stands in an adjacent pair of double quotes
RECURSIVE QuotesPaired(_)
QuotesPaired(s) ==
    IF Len(s) = 0 THEN TRUE
    ELSE IF CharAt(s, 1) # QUOTE THEN QuotesPaired(From(s, 2))
    ELSE Len(s) >= 2 /\ CharAt(s, 2) = QUOTE /\ QuotesPaired(From(s, 3))

\* reads a quoted identifier's body back: each pair of double quotes is one
RECURSIVE Undouble(_)
Undouble(s) ==
    IF Len(s) = 0 THEN ""
    ELSE IF CharAt(s, 1) = QUOTE THEN QUOTE \o Undouble(From(s, 3))
    ELSE CharAt(s, 1) \o Undouble(From(s, 2))

\* d_out is one pair of outer double quotes around a body whose quotes are paired
WrappedOnce(out) ==
    /\ Len(out) >= 2
    /\ CharAt(out, 1) = QUOTE
    /\ CharAt(out, Len(out)) = QUOTE
    /\ QuotesPaired(Inner(out))

\* C4 as claimed: quote_ident wraps its input in one pair of outer double
\* quotes and doubles every double quote of the input, dropping none, also
\* when the input consists of quotes or begins and ends with one.
C4_EveryInputQuoteDoubled ==
    d_op = "quote_ident" =>
        /\ WrappedOnce(d_out)
        /\ Count(d_out, QUOTE) = 2 + 2 * Count(d_name, QUOTE)

\* C4 as amended: quote_ident wraps in one pair of outer double quotes the
\* identifier left after strip_any_quotes (blanks trimmed, one layer of
\* enclosing quotes removed) and doubles every double quote of that
\* identifier: reading the body back gives exactly that identifier.
C4_StrippedNameQuoteDoubled ==
    d_op = "quote_ident" =>
        /\ WrappedOnce(d_out)
        /\ Undouble(Inner(d_out)) = strip_any_quotes(d_name)
        /\ Count(d_out, QUOTE) = 2 + 2 * Count(strip_any_quotes(d_name), QUOTE)

\* C4's case: a name with an embedded quote between enclosing quotes
C4_Witness ==
    /\ d_op = "quote_ident"
    /\ d_name = "\"a\"a\""
    /\ d_out = "\"a\"\"a\""

\* C5 as claimed: render_table_name quotes two parts only for a name with
\* exactly one '.', and quotes any other name as a single identifier.
C5_SplitsOnlyOnOneDot ==
    d_op = "render_table_name" =>
        LET s == Strip(d_name)
            dot == Find(s, ".")
        IN  IF Count(s, ".") = 1
            THEN d_out = quote_ident(SubSeq(s, 1, dot - 1)) \o "." \o quote_ident(From(s, dot + 1))
            ELSE d_out = quote_ident(s)

---------------------------------------------------------------------------
(* The type layer: claims C2 and C3. *)

\* C2 as claimed: for every type text, the empty and the blank ones that
\* generate_model passes included, _parse_ch_type returns a Column Type and
\* never raises; text it does not recognize gives String.
C2_ParseNeverRaises ==
    t_pc = "parsed" =>
        /\ t_parsed.k # "raise"
        /\ t_parsed.k \in LeafKinds \cup WrapperKinds \cup {"Decimal", "FixedString", "DateTime64"}

\* C3: _parse_ch_type(_render_type(t)) is t, for every Column Type t of leaf
\* kinds, parameterized kinds and wrappers nested to the depth bound.
C3_RoundTrip ==
    (t_pc = "parsed" /\ t_type # NoType) => t_parsed = t_type

\* C3's case: Nullable(Array(Decimal(10,2))) rendered and read back
C3_Witness ==
    /\ t_pc = "parsed"
    /\ t_type = Wrapper("Nullable", Wrapper("Array", Decimal(10, 2)))
    /\ t_text = "Nullable(Array(Decimal(10,2)))"
    /\ t_parsed = t_type

---------------------------------------------------------------------------
(* The CREATE TABLE renderer: claims C6 and C7. *)

\* the columns the ordering key may default to: one named "id" in any case,
\* or the first declared column when there is none
DefaultKeys(columns) ==
    IF \E i \in 1..Len(columns) : Lower(columns[i].name) = "id"
    THEN {columns[i].name : i \in {j \in 1..Len(columns) : Lower(columns[j].name) = "id"}}
    ELSE {columns[1].name}

\* C6 as claimed: from either entry point, a table with columns and no
\* ordering key given is created with an ORDER BY clause naming the column
\* called "id" (in any case) if there is one, otherwise the first column.
C6_DefaultOrderBy ==
    (ddl_pc = "done" /\ ~ddl_call.order_by.given /\ Len(ddl_call.columns) > 0) =>
        /\ Len(ddl_executed) = 1
        /\ \E key \in DefaultKeys(ddl_call.columns) :
              Contains(ddl_executed[1], "\nORDER BY (" \o quote_ident(key) \o ")")

\* C7 as claimed: a CREATE TABLE of no columns raises, from either entry
\* point and whatever the ordering key, and nothing reaches db.execute.
C7_NoColumnsRaises ==
    (ddl_pc = "done" /\ Len(ddl_call.columns) = 0) =>
        /\ ddl_raised # ""
        /\ ddl_executed = <<>>

---------------------------------------------------------------------------
(* The SELECT compiler and the Query builder: claims C1, C8, C9 and C10. *)

\* the name the allocator hands out j-th, counting from 0
PName(j) == "p" \o ToStr(j)

\* the tree with every literal value replaced by u
RECURSIVE Subst(_, _)
Subst(e, u) ==
    IF e.k = "val" THEN ValueExpr(u)
    ELSE IF e.k = "bin" THEN BinaryExpr(Subst(e.left, u), e.op, Subst(e.right, u))
    ELSE e

\* the elements of a finite set of integers, ascending
RECURSIVE Ascending(_)
Ascending(S) ==
    IF S = {} THEN <<>>
    ELSE LET m == CHOOSE x \in S : \A y \in S : x <= y
         IN  <<m>> \o Ascending(S \ {m})

\* the names of the %(name)s placeholders of a text, in order of appearance
PlaceholderNames(sql) ==
    LET at == Ascending(Occurrences(sql, "%(", 1))
    IN  [j \in 1..Len(at) |-> SubSeq(sql, at[j] + 2, FindFrom(sql, ")s", at[j]) - 1)]

\* values a literal could have had instead
ProbeValues == {StrV(""), StrV("it's \"quoted\"; --"), IntV(42)}

\* C1 as claimed: the SELECT text all() issues never contains the text of a
\* literal of the filter; the literal is in the text only as a placeholder
\* and its value only in the parameter map.
C1_LiteralTextNotInSql ==
    issued.fn = "execute" =>
        LET lits == Literals(q_where)
        IN  \A j \in 1..Len(lits) :
               /\ ~Contains(issued.sql, TextOf(lits[j]))
               /\ Contains(issued.sql, placeholder(PName(j - 1)))
               /\ issued.params[PName(j - 1)] = lits[j]

\* C1 as amended: no literal value is written into the SELECT text. The
\* text is the same whatever values the literals have, each literal stands
\* in it as its placeholder %(pN)s, and its value is bound to pN in the
\* parameter map.
C1_LiteralsOnlyBound ==
    issued.fn = "execute" =>
        LET lits == Literals(q_where)
        IN  /\ \A u \in ProbeValues :
                  all_statement(q_model, Subst(q_where, u), q_order_by, q_limit, q_offset).sql
                      = issued.sql
            /\ \A j \in 1..Len(lits) :
                  /\ Contains(issued.sql, placeholder(PName(j - 1)))
                  /\ PName(j - 1) \in DOMAIN issued.params
                  /\ issued.params[PName(j - 1)] = lits[j]

\* C1's case: a literal with a quote, a semicolon and SQL keywords
C1_Witness ==
    /\ issued.fn = "execute"
    /\ Literals(q_where) = <<StrV("a%'; DROP TABLE users; --")>>
    /\ issued.sql = "SELECT \"id\", \"name\" FROM \"shop\".\"users\" WHERE (\"name\" LIKE %(p0)s)"
    /\ issued.params = ("p0" :> StrV("a%'; DROP TABLE users; --"))

\* C8 as claimed: count() issues SELECT count() FROM (S) AS "sub" where S
\* is the text all() would issue for the same query, LIMIT and OFFSET
\* included, with that statement's parameter map.
C8_CountWrapsAllStatement ==
    issued.fn = "scalar" =>
        LET S == all_statement(q_model, q_where, q_order_by, q_limit, q_offset)
        IN  /\ issued.sql = "SELECT count() FROM (" \o S.sql \o ") AS \"sub\""
            /\ issued.params = S.params

\* C8 as amended: count() issues SELECT count() FROM (S) AS "sub" where S
\* is the SELECT compiled from the query's filter and ordering with no LIMIT
\* and no OFFSET, with S's parameter map: one binding per filter literal.
C8_CountWrapsUnlimitedSelect ==
    issued.fn = "scalar" =>
        LET S == all_statement(q_model, q_where, q_order_by, None, None)
            k == Len(Literals(q_where))
        IN  /\ issued.sql = "SELECT count() FROM (" \o S.sql \o ") AS \"sub\""
            /\ issued.params = S.params
            /\ DOMAIN issued.params = {PName(j) : j \in 0..(k - 1)}
            /\ ~Contains(issued.sql, " LIMIT ")
            /\ ~Contains(issued.sql, " OFFSET ")

\* C8's case: count() on a query with a filter, a limit and an offset
C8_Witness ==
    /\ issued.fn = "scalar"
    /\ q_limit = Some(10)
    /\ q_offset = Some(20)
    /\ issued.sql = "SELECT count() FROM (SELECT \"id\", \"name\" FROM \"shop\".\"users\" WHERE (\"id\" = %(p0)s)) AS \"sub\""
    /\ issued.params = ("p0" :> IntV(5))

\* the text of the i-th chained predicate, a comparison of a column with the
\* i-th placeholder
Group(i) ==
    "(" \o quote_ident(q_calls[i].left.name) \o " " \o q_calls[i].op \o " "
        \o placeholder(PName(i - 1)) \o ")"

\* the first n groups, combined by AND to the left
RECURSIVE LeftNested(_)
LeftNested(n) ==
    IF n = 1 THEN Group(1)
    ELSE "(" \o LeftNested(n - 1) \o " AND " \o Group(n) \o ")"

\* C9: N chained filter() calls with one-literal predicates give a WHERE
\* clause of the N predicate groups nested to the left by AND, in call
\* order, and exactly N parameter bindings, p0..p(N-1), one per predicate
\* (a LIMIT or an OFFSET of the query adds its own binding, see C10).
C9_FilterChainLeftNested ==
    (/\ issued.fn = "execute"
     /\ Len(q_calls) >= 1
     /\ \A i \in 1..Len(q_calls) : q_calls[i] \in LiteralPredicates) =>
        LET N == Len(q_calls)
            from == Find(issued.sql, " WHERE ")
            clause == SubSeq(issued.sql, from + 7, from + 6 + Len(LeftNested(N)))
        IN  /\ from > 0
            /\ clause = LeftNested(N)
            /\ Cardinality(Occurrences(issued.sql, " AND ", 1)) = N - 1
            /\ PlaceholderNames(clause) = [i \in 1..N |-> PName(i - 1)]
            /\ \A i \in 1..N : issued.params[PName(i - 1)] = q_calls[i].right.value
            /\ Cardinality(DOMAIN issued.params)
                  = N + (IF q_limit.given THEN 1 ELSE 0) + (IF q_offset.given THEN 1 ELSE 0)

\* C9's case: three chained predicates
C9_Witness ==
    /\ issued.fn = "execute"
    /\ Len(q_calls) = 3
    /\ Cardinality(DOMAIN issued.params) = 3
    /\ issued.sql = "SELECT \"id\", \"name\" FROM \"shop\".\"users\" WHERE (((\"id\" = %(p0)s) AND (\"name\" LIKE %(p1)s)) AND (\"name\" != %(p2)s))"
    /\ issued.params = ("p0" :> IntV(5) @@ "p1" :> StrV("a%'; DROP TABLE users; --")
                        @@ "p2" :> StrV("SELECT"))

\* C10: in the statement of one select on a fresh Compiler the k literals
\* of the filter take p0..p(k-1) from left to right, LIMIT the next name and
\* OFFSET the one after; each is a placeholder of its own at the end of the
\* text, and the map has exactly k + [limit] + [offset] entries.
C10_SequentialNames ==
    issued.fn = "execute" =>
        LET lits == Literals(q_where)
            k == Len(lits)
            nl == IF q_limit.given THEN 1 ELSE 0
            no == IF q_offset.given THEN 1 ELSE 0
            n == k + nl + no
            tail == (IF q_limit.given THEN " LIMIT " \o placeholder(PName(k)) ELSE "")
                    \o (IF q_offset.given THEN " OFFSET " \o placeholder(PName(k + nl)) ELSE "")
        IN  /\ PlaceholderNames(issued.sql) = [j \in 1..n |-> PName(j - 1)]
            /\ DOMAIN issued.params = {PName(j) : j \in 0..(n - 1)}
            /\ Cardinality(DOMAIN issued.params) = n
            /\ \A j \in 1..k : issued.params[PName(j - 1)] = lits[j]
            /\ q_limit.given => issued.params[PName(k)] = IntV(q_limit.v)
            /\ q_offset.given => issued.params[PName(k + nl)] = IntV(q_offset.v)
            /\ EndsWith(issued.sql, tail)
            /\ ~Contains(issued.sql, "LIMIT " \o ToStr(IF q_limit.given THEN q_limit.v ELSE 0))
            /\ ~Contains(issued.sql, "OFFSET " \o ToStr(IF q_offset.given THEN q_offset.v ELSE 0))

\* C10's case: three literals in two filters, a limit and an offset
C10_Witness ==
    /\ issued.fn = "execute"
    /\ Len(q_calls) = 2
    /\ issued.sql = "SELECT \"id\", \"name\" FROM \"shop\".\"users\" WHERE ((\"id\" = %(p0)s) AND ((\"id\" > %(p1)s) OR (\"id\" IN %(p2)s))) LIMIT %(p3)s OFFSET %(p4)s"
    /\ issued.params = ("p0" :> IntV(5) @@ "p1" :> IntV(1) @@ "p2" :> ListV("[7, 8]")
                        @@ "p3" :> IntV(10) @@ "p4" :> IntV(20))

---------------------------------------------------------------------------
(* Concurrent compilations: claim C11. *)

\* the bindings a call has made, as the map select returns
AsMap(bs) ==
    [name \in {bs[j].name : j \in 1..Len(bs)} |->
        LET last == CHOOSE j \in 1..Len(bs) :
                        bs[j].name = name /\ \A h \in (j + 1)..Len(bs) : bs[h].name # name
        IN  bs[last].value]

\* C11: every call compiles on a Compiler of its own. However the calls of
\* all, count and insert_from_select interleave, no Compiler's counter is
\* read or advanced by two threads, two calls never hold the same Compiler,
\* the names a call has allocated so far are p0, p1, ... in order, and the
\* call returns the parameter map the same select gives when run alone.
C11_OwnCompiler ==
    /\ \A o \in DOMAIN heap_users : Cardinality(heap_users[o]) <= 1
    /\ \A t, u \in Threads :
          (t # u /\ c_comp[t] # 0 /\ c_comp[u] # 0) => c_comp[t] # c_comp[u]
    /\ \A t \in Threads :
          /\ \A j \in 1..Len(c_params[t]) : c_params[t][j].name = PName(j - 1)
          /\ c_pc[t] = "done" =>
                LET q == c_call[t].query
                    fn == c_call[t].fn
                IN  AsMap(c_params[t])
                        = select(q.model, q.where, q.order_by,
                                 limit_arg(fn, q), offset_arg(fn, q), 0).params

\* C11's case: two calls in the middle of add_param at the same time, all()
\* between the load and the store of its third parameter and
\* insert_from_select between those of its second
C11_Witness ==
    /\ c_call[1].fn = "all"
    /\ c_call[2].fn = "insert_from_select"
    /\ c_pc[1] = "store"
    /\ c_pc[2] = "store"
    /\ Len(c_params[1]) = 2
    /\ Len(c_params[2]) = 1
    /\ c_p[1] = "p2"
    /\ c_p[2] = "p1"

---------------------------------------------------------------------------
(* Determinism of compilation: claim C12. *)

\* C12: two consecutive all() calls on an unchanged Query, each compiling
\* with a Compiler of its own, hand execute the same SQL text and the same
\* parameter map, names and values.
C12_SameStatementTwice ==
    (issued.fn = "execute" /\ issued_before.fn = "execute") =>
        /\ issued.sql = issued_before.sql
        /\ DOMAIN issued.params = DOMAIN issued_before.params
        /\ \A name \in DOMAIN issued.params : issued.params[name] = issued_before.params[name]

\* C12's case: all() twice on a Query with three literals, a limit and an
\* offset
C12_Witness ==
    /\ issued.fn = "execute"
    /\ issued_before.fn = "execute"
    /\ Len(q_calls) = 2
    /\ issued_before.sql = "SELECT \"id\", \"name\" FROM \"shop\".\"users\" WHERE ((\"id\" = %(p0)s) AND ((\"id\" > %(p1)s) OR (\"id\" IN %(p2)s))) LIMIT %(p3)s OFFSET %(p4)s"
    /\ DOMAIN issued_before.params = {"p0", "p1", "p2", "p3", "p4"}

---------------------------------------------------------------------------
(* Leaf keywords of the type parser: claim C13. *)

\* the leaf keywords of the type declaration grammar, in lower case
GrammarKeywords ==
    {"int8", "int16", "int32", "int64", "uint8", "uint16", "uint32", "uint64",
     "float32", "float64", "string", "uuid", "bool", "date", "date32", "datetime"}

\* t is neither a wrapper form nor a parameterized form, and is not blank
PlainText(t) ==
    /\ Strip(t) # ""
    /\ ~RE_WRAP1(Strip(t)).matched
    /\ ~RE_DECIMAL(Strip(t)).matched
    /\ ~RE_FIXED(Strip(t)).matched
    /\ ~RE_DT64(Strip(t)).matched

\* C13 as claimed: a text that is no wrapper and no parameterized form parses
\* as a leaf type only when the whole text is, whatever its case, one of the
\* grammar's keywords; every other such text, a keyword followed by further
\* tokens or a word outside the list, parses as String.
C13_LeafOnlyByExactKeyword ==
    (t_pc = "parsed" /\ PlainText(t_text)) =>
        t_parsed = (IF Lower(Strip(t_text)) \in GrammarKeywords
                    THEN SIMPLE_MAP(Lower(Strip(t_text)))
                    ELSE Leaf("String"))

---------------------------------------------------------------------------
(* The INSERT ... SELECT builder: claim C14. *)

\* C14: on a builder that has been given no source table, whatever else it
\* has been given, compile() and execute() raise, return no SQL text and
\* hand the client nothing.
C14_NoSourcesRaises ==
    (b_result # NoResult /\ b_sources = <<>>) =>
        /\ b_result.k = "raise"
        /\ b_result.exc \in {"AssertionError", "IndexError"}
        /\ b_sent = <<>>

\* C14's case: map, where and validate, but no source, then a call that
\* raises
C14_Witness ==
    /\ b_sources = <<>>
    /\ b_mapping # <<>>
    /\ b_where # <<>>
    /\ b_validated
    /\ b_result = Raise("AssertionError")

---------------------------------------------------------------------------
(* Placeholders and bindings: claim C15. *)

\* the tree holds a raw filter string
RECURSIVE HasRaw(_)
HasRaw(e) ==
    IF e.k = "raw" THEN TRUE
    ELSE IF e.k = "bin" THEN HasRaw(e.left) \/ HasRaw(e.right)
    ELSE FALSE

\* C15: in every statement select compiles on a fresh Compiler from column,
\* literal, comparison and logical nodes, the placeholder names in the text
\* are the keys of the parameter map: every %(pN)s is bound, and every
\* binding is referenced by exactly one placeholder. Raw filter strings add
\* no binding: the map has one entry per literal of the tree, and one each
\* for the limit and the offset handed to select.
C15_PlaceholdersAreTheKeys ==
    issued.fn # "none" =>
        LET names == PlaceholderNames(issued.sql)
            k == Len(Literals(q_where))
            nl == IF issued.fn = "execute" /\ q_limit.given THEN 1 ELSE 0
            no == IF issued.fn = "execute" /\ q_offset.given THEN 1 ELSE 0
        IN  /\ ~HasRaw(q_where) =>
                  /\ {names[j] : j \in 1..Len(names)} = DOMAIN issued.params
                  /\ \A name \in DOMAIN issued.params :
                        Cardinality({j \in 1..Len(names) : names[j] = name}) = 1
            /\ Cardinality(DOMAIN issued.params) = k + nl + no

\* C15's case: the same literal in two predicates, then a predicate of two
\* literals, and a limit: five placeholders, five bindings
C15_Witness ==
    /\ issued.fn = "execute"
    /\ ~HasRaw(q_where)
    /\ Len(q_calls) = 3
    /\ q_calls[1] = q_calls[2]
    /\ PlaceholderNames(issued.sql) = <<"p0", "p1", "p2", "p3", "p4">>
    /\ issued.params = ("p0" :> IntV(5) @@ "p1" :> IntV(5) @@ "p2" :> IntV(1)
                        @@ "p3" :> ListV("[7, 8]") @@ "p4" :> IntV(1))

---------------------------------------------------------------------------
(* Query.first: claim C16. *)

\* C16: first() sets the limit to 1 when it is unset or above 1 and keeps it
\* otherwise, and changes nothing else of the Query: filter tree, ordering
\* and offset stay. The limit persists: from first() until limit() is called
\* again the limit is set and at most 1, and every statement all() or
\* first() hands to execute ends its LIMIT with a placeholder bound to it.
C16_FirstChangesOnlyLimit ==
    /\ [](q_first =>
            /\ q_limit.given
            /\ q_limit.v <= 1
            /\ issued.fn = "execute" =>
                  LET pname == PName(Len(Literals(q_where)))
                  IN  /\ Contains(issued.sql, " LIMIT " \o placeholder(pname))
                      /\ pname \in DOMAIN issued.params
                      /\ issued.params[pname] = IntV(q_limit.v))
    /\ [][(q_first' /\ issued'.fn = "execute") =>
            /\ q_limit' = (IF ~q_limit.given \/ q_limit.v > 1 THEN Some(1) ELSE q_limit)
            /\ q_where' = q_where
            /\ q_order_by' = q_order_by
            /\ q_offset' = q_offset
            /\ q_model' = q_model
            /\ q_calls' = q_calls]_vars

\* C16's case: first() on a Query with a filter and an offset, then all():
\* the limit is 1 and both statements carry it
C16_Witness ==
    /\ q_first
    /\ q_limit = Some(1)
    /\ q_offset = Some(20)
    /\ Len(q_calls) = 1
    /\ issued.fn = "execute"
    /\ issued_before = issued
    /\ issued.sql = "SELECT \"id\", \"name\" FROM \"shop\".\"users\" WHERE (\"id\" = %(p0)s) LIMIT %(p1)s OFFSET %(p2)s"
    /\ issued.params = ("p0" :> IntV(5) @@ "p1" :> IntV(1) @@ "p2" :> IntV(20))

=============================================================================
